---- MODULE Spec2Model ----
(***************************************************************************)
(* The pipeline engine of pyshell: pyshell/pipeline/core.py (Pipeline),    *)
(* pyshell/pipeline/pipe.py (Pipe) and pyshell/core.py (Stateful, State).  *)
(*                                                                         *)
(* A Pipeline holds an insertion-ordered mapping of Pipe objects.  Each    *)
(* Pipe carries a State mapping from flag names to a time stamp or False.  *)
(* The model keeps the truth value of every flag and, as the source does,  *)
(* the set of keys of the mapping: Pipe.__init__ stores nine keys, and a   *)
(* key that was never stored is absent, so that reading it through         *)
(* Stateful.state raises KeyError.  The excluded key comes into being      *)
(* when parse() excludes the pipe (set_state) or when the front-end        *)
(* stores False under it (del_state).                                      *)
(*                                                                         *)
(* The life of a pipeline follows CLIEngine.run: init, registration,       *)
(* configure, parse (which ends by calling resolve) and do.                *)
(*                                                                         *)
(* Spec is the pipeline up to its resolution: pipes with dependencies,     *)
(* triggers and replacements, the command line, and any number of further  *)
(* resolve() and register_pipe() calls by the front-end.                   *)
(*                                                                         *)
(* SpecDo is the pipeline through its execution: pipes with the keywords   *)
(* Pipe.run reads (exceptions, optional, description), the -n switch, and  *)
(* do(), which runs the pipes of call.  Pipe.run is followed statement by  *)
(* statement (pc): try, except, else, finally.                             *)
(***************************************************************************)
EXTENDS Naturals, Sequences, FiniteSets, TLC

(* ---------------------------- bounds ---------------------------------- *)
\* number of pipes the front-end registers besides `all` and `none`
MaxPipes == 2
\* number of declared relations (dependency, trigger, replaces, include=True)
\* over the whole registry
MaxEdges == 2
\* number of +name switches and of -name switches on one command line
MaxInclude == 2
MaxExclude == 1
\* The interpreter ends a recursion that nests too deep with a RuntimeError.
\* Its limit (1000 frames) lies far above the nesting of any resolution that
\* ends by itself; the model places it just above that nesting (see
\* RecursionOnlyBySelfDependency).
RecursionLimit == 2 * (MaxPipes + 2) + 1

\* the names the front-end gives its pipes, in the order it registers them
NamePool == <<"a", "b", "c", "d", "e", "f">>

UserNames == {NamePool[i] : i \in 1..MaxPipes}

\* the names a pipe may declare in its dependencies, triggers and replaces
TargetNames == UserNames \cup {"all"}

Range(s) == {s[i] : i \in 1..Len(s)}

(* ------------------------- Stateful / State ---------------------------- *)
\* Pipe.__init__: State.fromkeys([...], False)
PipeStateKeys ==
    {"initialized", "included", "primed", "replaced", "triggered",
     "started", "excepted", "completed", "finished"}

\* Pipeline.__init__: State.fromkeys([...], False)
PipelineStateKeys ==
    {"initialized", "configured", "parsed", "started", "running",
     "paused", "finished"}

\* State.fromkeys(keys, False)
fromkeys(keys) == [k \in keys |-> FALSE]

\* Stateful.set_state: self._state[state] = time.time()  (a true value)
set_state(st, key) == [k \in (DOMAIN st) \cup {key} |-> IF k = key THEN TRUE ELSE st[k]]

\* Stateful.del_state: self._state[state] = False
del_state(st, key) == [k \in (DOMAIN st) \cup {key} |-> IF k = key THEN FALSE ELSE st[k]]

\* Stateful.state is { key : bool(value) }; reading a key it does not hold
\* raises KeyError
HasKey(st, key) == key \in DOMAIN st

(* ------------------------------- Pipe ---------------------------------- *)
\* Pipe.__init__ with the keywords of Pipe.keywords; parent defaults to str().
\* exceptions is the tuple of exception classes the pipe declares acceptable.
\* description is "text" when the description keyword, or the docstring or
\* the description attribute of the action, supplies a text, and "None" when
\* none of them does.  handle, the failure handler, is a callable of the
\* front-end (by default the identity); what a call of it does is drawn when
\* it is called.  entered is no attribute of the source: it counts the calls
\* of Pipeline._resolve on the pipe during the latest resolve().
Pipe(name, dependencies, triggers, replaces, include, exceptions, optional, description) ==
    [name |-> name,
     dependencies |-> dependencies,
     triggers |-> triggers,
     replaces |-> replaces,
     include |-> include,
     exceptions |-> exceptions,
     optional |-> optional,
     description |-> description,
     parent |-> "",
     entered |-> 0,
     state |-> set_state(fromkeys(PipeStateKeys), "initialized")]

VARIABLES
    pipes,      \* Pipeline.pipes: the pipes in the order of the OrderedDict
    call,       \* Pipeline.call: the names of the pipes to run; the attribute
                \* exists from the first resolve() on (_state["started"])
    _state,     \* Pipeline._state
    last,       \* the latest operation and the exception it raised, if any
    config,     \* Pipeline.config: the values under System.DryRun and Default
    pc,         \* the statement do() has reached
    index,      \* do(): the position in call of the pipe of the for loop
    pending,    \* the exception in flight, "" when there is none
    runs,       \* one record for every call of Pipe.run, in the order of the
                \* calls: what the log lines and the action's effects show
    reported    \* _execute: the name logged as "Last completed pipe"

\* the variables of the execution, which registration and resolution leave alone
xvars == <<config, pc, index, pending, runs, reported>>

vars == <<pipes, call, _state, last, config, pc, index, pending, runs, reported>>

NoErr == [type |-> "", a |-> "", b |-> ""]
Err(type, a, b) == [type |-> type, a |-> a, b |-> b]

Names(ps) == {ps[i].name : i \in 1..Len(ps)}

\* self.pipes[name]: the position of the pipe called name
IndexOf(ps, name) == CHOOSE i \in 1..Len(ps) : ps[i].name = name

(* --------------------------- resolution -------------------------------- *)
\* The resolver mutates the pipes in place and may raise; the operators
\* below thread R = [pipes, err] through the statements in source order and
\* stop at the first exception.
Raise(R, e) == [R EXCEPT !.err = e]

\* _unprimed() without its second conjunct: the excluded flag is not consulted
_unprimed_any(pipe) == [raises |-> FALSE, value |-> ~pipe.state["primed"]]

\* Pipeline._unprimed:
\*     not pipe.state["primed"] and not pipe.state["excluded"]
\* `and` short-circuits, so the excluded key is read only when primed is false
_unprimed(pipe) ==
    IF pipe.state["primed"] THEN [raises |-> FALSE, value |-> FALSE]
    ELSE IF ~HasKey(pipe.state, "excluded") THEN [raises |-> TRUE, value |-> FALSE]
    ELSE [raises |-> FALSE, value |-> ~pipe.state["excluded"]]

\* Pipeline._resolve_replaces
_resolve_replaces(ps, i) ==
    [k \in 1..Len(ps) |->
        IF ps[k].name \in Range(ps[i].replaces)
        THEN [ps[k] EXCEPT !.state = set_state(@, "replaced")]
        ELSE ps[k]]

DependencyError(a, b) == Err("PipelineStateException:depend", a, b)
TriggerError(a, b) == Err("PipelineStateException:trigger", a, b)
KeyError(a) == Err("KeyError", a, "excluded")
RecursionError(a) == Err("RuntimeError", a, "")

RECURSIVE _resolve(_, _, _)
RECURSIVE _resolve_dependents(_, _, _, _, _)
RECURSIVE _resolve_triggers(_, _, _, _, _)

\* Pipeline._resolve; depth counts the nested calls of _resolve
_resolve(R, i, depth) ==
    IF depth > RecursionLimit THEN Raise(R, RecursionError(R.pipes[i].name))
    ELSE
    LET R0 == [R EXCEPT !.pipes[i].entered = @ + 1]
        R1 == _resolve_dependents(R0, i, Len(R0.pipes), TRUE, depth)
    IN  IF R1.err.type # "" THEN R1
        ELSE
        LET R2 == [R1 EXCEPT !.pipes[i].state = set_state(@, "primed")]
            R3 == _resolve_triggers(R2, i, Len(R2.pipes), FALSE, depth)
        IN  IF R3.err.type # "" THEN R3
            ELSE [R3 EXCEPT !.pipes = _resolve_replaces(R3.pipes, i)]

\* Pipeline._resolve_dependents: the loop over reversed(self.pipes.values()),
\* at position k, with the current value of the local order_error
_resolve_dependents(R, i, k, order_error, depth) ==
    IF k = 0 \/ R.err.type # "" THEN R
    ELSE
    LET pipe == R.pipes[k]
        parent_pipe == R.pipes[i]
        oe == IF pipe.name = parent_pipe.name THEN FALSE ELSE order_error
        u == _unprimed(pipe)
    IN  IF pipe.name \notin Range(parent_pipe.dependencies)
        THEN _resolve_dependents(R, i, k - 1, oe, depth)
        ELSE IF u.raises THEN Raise(R, KeyError(pipe.name))
        ELSE IF ~u.value THEN _resolve_dependents(R, i, k - 1, oe, depth)
        ELSE IF oe THEN Raise(R, DependencyError(parent_pipe.name, pipe.name))
        ELSE
        LET Rp == [R EXCEPT !.pipes[k].parent = parent_pipe.name]
        IN  _resolve_dependents(_resolve(Rp, k, depth + 1), i, k - 1, oe, depth)

\* Pipeline._resolve_triggers, as _resolve_dependents
_resolve_triggers(R, i, k, order_error, depth) ==
    IF k = 0 \/ R.err.type # "" THEN R
    ELSE
    LET pipe == R.pipes[k]
        parent_pipe == R.pipes[i]
        oe == IF pipe.name = parent_pipe.name THEN TRUE ELSE order_error
        u == _unprimed(pipe)
    IN  IF pipe.name \notin Range(parent_pipe.triggers)
        THEN _resolve_triggers(R, i, k - 1, oe, depth)
        ELSE IF u.raises THEN Raise(R, KeyError(pipe.name))
        ELSE IF ~u.value \/ pipe.state["included"]
        THEN _resolve_triggers(R, i, k - 1, oe, depth)
        ELSE IF oe THEN Raise(R, TriggerError(parent_pipe.name, pipe.name))
        ELSE
        LET Rp == [R EXCEPT !.pipes[k].parent = parent_pipe.name,
                            !.pipes[k].state = set_state(@, "triggered")]
        IN  _resolve_triggers(_resolve(Rp, k, depth + 1), i, k - 1, oe, depth)

\* Pipeline.resolve, first loop: resolve every included, unprimed pipe
RECURSIVE ResolveIncluded(_, _)
ResolveIncluded(R, k) ==
    IF k > Len(R.pipes) \/ R.err.type # "" THEN R
    ELSE
    LET pipe == R.pipes[k]
        u == _unprimed(pipe)
    IN  IF u.raises THEN Raise(R, KeyError(pipe.name))
        ELSE IF u.value /\ pipe.state["included"]
        THEN ResolveIncluded(_resolve(R, k, 1), k + 1)
        ELSE ResolveIncluded(R, k + 1)

\* a second loop that adds a pipe once for primed and once for triggered
RECURSIVE BuildCall_perflag(_, _)
BuildCall_perflag(ps, k) ==
    IF k > Len(ps) THEN <<>>
    ELSE (IF ps[k].state["primed"] /\ ~ps[k].state["replaced"]
          THEN <<ps[k].name>> ELSE <<>>)
         \o (IF ps[k].state["triggered"] /\ ~ps[k].state["replaced"]
             THEN <<ps[k].name>> ELSE <<>>)
         \o BuildCall_perflag(ps, k + 1)

\* Pipeline.resolve, second loop: self.call += [pipe]
RECURSIVE BuildCall(_, _)
BuildCall(ps, k) ==
    IF k > Len(ps) THEN <<>>
    ELSE IF (ps[k].state["primed"] \/ ps[k].state["triggered"])
             /\ ~ps[k].state["replaced"]
         THEN <<ps[k].name>> \o BuildCall(ps, k + 1)
         ELSE BuildCall(ps, k + 1)

\* a resolve() begins: no _resolve has been entered
Unentered(ps) == [k \in 1..Len(ps) |-> [ps[k] EXCEPT !.entered = 0]]

\* the names of the relation lists of ps that no pipe of ps has
UnknownNames(ps) ==
    UNION {Range(ps[i].dependencies) \cup Range(ps[i].triggers) \cup Range(ps[i].replaces)
           : i \in 1..Len(ps)} \ {ps[i].name : i \in 1..Len(ps)}

\* a resolve() that rejects a relation naming no registered pipe, as the
\* execute() of _old.py did for dependencies
resolve_strict(ps) ==
    LET R == ResolveIncluded([pipes |-> Unentered(ps), err |-> NoErr], 1)
    IN  IF UnknownNames(ps) # {}
        THEN [pipes |-> ps, err |-> Err("PipelineStateError", "", ""), call |-> <<>>]
        ELSE [pipes |-> R.pipes,
              err |-> R.err,
              call |-> IF R.err.type = "" THEN BuildCall(R.pipes, 1) ELSE <<>>]

\* resolve() assembling call from the pipes primed so far although it raised
resolve_partial(ps) ==
    LET R == ResolveIncluded([pipes |-> Unentered(ps), err |-> NoErr], 1)
    IN  [pipes |-> R.pipes, err |-> R.err, call |-> BuildCall(R.pipes, 1)]

\* Pipeline.resolve: the pipes, the call list and the exception it leaves
resolve(ps) ==
    LET R == ResolveIncluded([pipes |-> Unentered(ps), err |-> NoErr], 1)
    IN  [pipes |-> R.pipes,
         err |-> R.err,
         call |-> IF R.err.type = "" THEN BuildCall(R.pipes, 1) ELSE <<>>]

(* ----------------------------- Pipeline -------------------------------- *)
\* the declared relations of the registry, all.dependencies included
RECURSIVE EdgeCount(_, _)
EdgeCount(ps, k) ==
    IF k > Len(ps) THEN 0
    ELSE Len(ps[k].dependencies) + Len(ps[k].triggers) + Len(ps[k].replaces)
         + EdgeCount(ps, k + 1)

\* a list of names, written in the order of the name pool
ListOf(S) == SelectSeq(NamePool \o <<"all">>, LAMBDA n : n \in S)

\* the name the front-end gives to its next pipe
NextNames == IF Len(pipes) - 2 < MaxPipes /\ Len(pipes) >= 2
             THEN {NamePool[Len(pipes) - 1]} ELSE {}

Init ==
    /\ pipes = <<>>
    /\ call = <<>>
    /\ _state = fromkeys(PipelineStateKeys)
    /\ last = [op |-> "__init__", err |-> NoErr]
    /\ config = [DryRun |-> FALSE, Default |-> <<>>]
    /\ pc = "idle"
    /\ index = 0
    /\ pending = ""
    /\ runs = <<>>
    /\ reported = ""

\* register_pipe() appending to all.dependencies whatever include says
AddPipe_any(ps, pipe) ==
    LET ps1 == Append(ps, pipe)
    IN  [ps1 EXCEPT ![IndexOf(ps1, "all")].dependencies = @ \o <<pipe.name>>]

\* Pipeline.register_pipe on the registry ps: the registry it leaves
AddPipe(ps, pipe) ==
    LET ps1 == Append(ps, pipe)
    IN  IF pipe.include
        THEN [ps1 EXCEPT ![IndexOf(ps1, "all")].dependencies = @ \o <<pipe.name>>]
        ELSE ps1

\* Pipeline.init: the macros `all` and `none`
init ==
    /\ ~_state["initialized"]
    /\ pipes' = AddPipe(AddPipe(pipes,
                            Pipe("all", <<>>, <<>>, <<>>, FALSE, <<>>, FALSE, "text")),
                        Pipe("none", <<>>, <<>>, <<>>, FALSE, <<>>, FALSE, "text"))
    /\ _state' = set_state(_state, "initialized")
    /\ last' = [op |-> "init", err |-> NoErr]
    /\ UNCHANGED <<call, xvars>>

\* register_pipe() without the test of lines 169-170
register_pipe_open(name, dependencies, triggers, replaces, include, exceptions, optional, description) ==
    /\ _state["initialized"]
    /\ name \notin Names(pipes)
    /\ pipes' = AddPipe(pipes, Pipe(name, dependencies, triggers, replaces, include,
                                    exceptions, optional, description))
    /\ last' = [op |-> "register_pipe", err |-> NoErr]
    /\ UNCHANGED <<call, _state, xvars>>

\* Pipeline.register_pipe
register_pipe(name, dependencies, triggers, replaces, include, exceptions, optional, description) ==
    /\ _state["initialized"]
    /\ IF _state["started"]
       THEN \* the message names no pipe
            /\ last' = [op |-> "register_pipe",
                        err |-> Err("PipelineStateException:started", "", "")]
            /\ UNCHANGED <<pipes, call, _state>>
       ELSE IF name \in Names(pipes)
       THEN \* line 174 formats the message with `name`, which is not bound
            /\ last' = [op |-> "register_pipe", err |-> Err("NameError", name, "")]
            /\ UNCHANGED <<pipes, call, _state>>
       ELSE /\ pipes' = AddPipe(pipes, Pipe(name, dependencies, triggers, replaces, include,
                                            exceptions, optional, description))
            /\ last' = [op |-> "register_pipe", err |-> NoErr]
            /\ UNCHANGED <<call, _state>>
    /\ UNCHANGED xvars

\* Stateful.del_state("excluded") on the pipe at position i: front-end code
\* storing a value under the excluded key before the command line is parsed
pipe_del_state(i) ==
    /\ _state["initialized"] /\ ~_state["started"]
    /\ ~HasKey(pipes[i].state, "excluded")
    /\ \A j \in 1..(i - 1) : HasKey(pipes[j].state, "excluded")
    /\ pipes' = [pipes EXCEPT ![i].state = del_state(@, "excluded")]
    /\ last' = [op |-> "del_state", err |-> NoErr]
    /\ UNCHANGED <<call, _state, xvars>>

\* Pipeline.configure: the option lists default to [], the configuration is
\* read (an external collaborator) and updated with the post_configure
\* entries; dry_run says that the -n switch, registered by init() with
\* {"System": {"DryRun": True}}, is on the command line; default is the list
\* the configuration file holds under Default, empty when it holds none
configure(dry_run, default) ==
    /\ _state["initialized"] /\ ~_state["configured"]
    /\ _state' = set_state(_state, "configured")
    /\ config' = [config EXCEPT !.DryRun = dry_run, !.Default = default]
    /\ last' = [op |-> "configure", err |-> NoErr]
    /\ UNCHANGED <<pipes, call, pc, index, pending, runs, reported>>

\* parse: self.pipes[pipename].set_state(flag) for every name of the list
SetFlags(ps, names, flag) ==
    [k \in 1..Len(ps) |->
        IF ps[k].name \in names THEN [ps[k] EXCEPT !.state = set_state(@, flag)]
        ELSE ps[k]]

\* parse() leaving `all` where init() registered it
MoveAllLast_keep(ps) == ps

\* parse: all_pipe = self.pipes.pop("all"); self.pipes["all"] = all_pipe
MoveAllLast(ps) ==
    SelectSeq(ps, LAMBDA p : p.name # "all") \o SelectSeq(ps, LAMBDA p : p.name = "all")

\* Pipeline.parse, which ends by calling resolve()
parse(include, exclude) ==
    /\ _state["configured"] /\ ~_state["parsed"]
    /\ LET ps == MoveAllLast(SetFlags(SetFlags(pipes, include, "included"),
                                         exclude, "excluded"))
           r == resolve(ps)
       IN  /\ pipes' = r.pipes
           /\ call' = r.call
           /\ last' = [op |-> "parse", err |-> r.err]
    /\ _state' = set_state(set_state(_state, "parsed"), "started")
    /\ UNCHANGED xvars

\* Pipeline.resolve, called again by the front-end
Resolve ==
    /\ _state["parsed"]
    /\ LET r == resolve(pipes)
       IN  /\ pipes' = r.pipes
           /\ call' = r.call
           /\ last' = [op |-> "resolve", err |-> r.err]
    /\ _state' = set_state(_state, "started")
    /\ UNCHANGED xvars

\* the relation lists the front-end declares
RelationLists ==
    {<<D, T, Rp>> \in (SUBSET TargetNames) \X (SUBSET TargetNames) \X (SUBSET TargetNames) :
        Cardinality(D) + Cardinality(T) + Cardinality(Rp) <= MaxEdges}

\* the front-end registers its next pipe
RegisterPipe ==
    \E name \in NextNames, include \in BOOLEAN, rel \in RelationLists :
        /\ ~_state["started"]
        /\ register_pipe(name, ListOf(rel[1]), ListOf(rel[2]), ListOf(rel[3]), include,
                         <<>>, FALSE, "text")
        /\ EdgeCount(pipes', 1) <= MaxEdges

\* a name no pipe has, and the name of a pipe
LateNames == {NamePool[Len(pipes) - 1], "all"}

\* the front-end calls register_pipe when the pipeline has started
RegisterLate ==
    /\ _state["started"]
    /\ \E name \in LateNames, include \in BOOLEAN :
          register_pipe(name, <<>>, <<>>, <<>>, include, <<>>, FALSE, "text")

\* the names of registered pipes a front-end may use a second time
DuplicateNames == Names(pipes) \ {"none"}

\* the front-end calls register_pipe with the name of a registered pipe
RegisterDuplicate ==
    /\ _state["initialized"] /\ ~_state["started"]
    /\ \E name \in DuplicateNames, include \in BOOLEAN :
          register_pipe(name, <<>>, <<>>, <<>>, include, <<>>, FALSE, "text")

\* the front-end stores False under the excluded key of its pipes, one pipe
\* after the other
DelState == \E i \in 1..Len(pipes) : pipe_del_state(i)

\* the command line: +name and -name switches of registered pipes
Parse ==
    \E include \in SUBSET Names(pipes), exclude \in SUBSET Names(pipes) :
        /\ Cardinality(include) <= MaxInclude
        /\ Cardinality(exclude) <= MaxExclude
        /\ parse(include, exclude)

\* a command line without the -n switch and a configuration file without
\* Default (resolution does not read config)
Configure == configure(FALSE, <<>>)

Next ==
    \/ init
    \/ RegisterPipe
    \/ RegisterLate
    \/ RegisterDuplicate
    \/ DelState
    \/ Configure
    \/ Parse
    \/ Resolve

Spec == Init /\ [][Next]_vars

(* ----------------------------- execution ------------------------------- *)
\* classes derived from Exception that an action or a handler may raise
ExceptionClasses == {"ValueError", "IOError"}
\* SystemExit and KeyboardInterrupt derive from BaseException, not Exception
Cancellations == {"SystemExit", "KeyboardInterrupt"}
\* the tuples a front-end passes as the exceptions keyword
DeclaredExceptions == {<<>>, <<"ValueError">>}
\* what a call of an action of the front-end does: it returns ("") or raises
ActionOutcomes == {""} \cup ExceptionClasses \cup Cancellations
\* init() registers `all` and `none` with the action `lambda : None`, which
\* returns unless the user interrupts the program
action_outcomes(pipe) ==
    IF pipe.name \in {"all", "none"} THEN {"", "KeyboardInterrupt"} ELSE ActionOutcomes
\* what a call of the failure handler does: it returns ("") or raises
HandlerOutcomes == {"", "IOError", "SystemExit"}

\* an except clause that matches every exception
isinstance_always(e, classes) == TRUE

\* an except clause that matches no exception
isinstance_never(e, classes) == FALSE

\* `except self.exceptions`: the exception is an instance of a listed class
isinstance(e, classes) == e \in Range(classes)

\* Pipe.description raises TypeError, on len(None), when _desc is None and
\* the action has neither a description attribute nor a docstring
description_raises(pipe) == pipe.description = "None"

\* Pipeline.pipes_with_state(state): list(set(names)), a list in the order of
\* the set
pipes_with_state(ps, state) == {ps[i].name : i \in {j \in 1..Len(ps) : ps[j].state[state]}}

\* a loop over reversed(self.call)
PipeAt_reversed(k) == call[Len(call) + 1 - k]

\* the pipe of the for loop of do()
PipeAt(k) == call[k]
Current == IndexOf(pipes, PipeAt(index))

\* the record of the run() in progress, updated
Noted(field, value) == [runs EXCEPT ![Len(runs)][field] = value]

\* Pipeline.do up to its for loop: start_actions() logs; an empty call ends in
\* parser.error, which exits (SystemExit).  CLIEngine.run calls do() when
\* parse() has returned.
do_start ==
    /\ pc = "idle"
    /\ _state["parsed"] /\ last.err.type = ""
    /\ IF call = <<>>
       THEN /\ pc' = "raised"
            /\ last' = [op |-> "do", err |-> Err("SystemExit", "", "No stages were set to run!")]
            /\ UNCHANGED index
       ELSE /\ pc' = "loop"
            /\ index' = 1
            /\ UNCHANGED last
    /\ UNCHANGED <<pipes, call, _state, config, pending, runs, reported>>

\* a run() that begins with the action and stores no started flag
enter_run_unmarked(st) == st

\* Pipe.run, first statement of the try block: the state of the pipe
enter_run(st) == set_state(st, "started")

\* do(): _execute(pipe) calls pipe.run(dry=config.get("System.DryRun", False));
\* Pipe.run: self.set_state("started")
run_start ==
    /\ pc = "loop" /\ index <= Len(call)
    /\ pipes' = [pipes EXCEPT ![Current].state = enter_run(@)]
    /\ runs' = Append(runs, [name |-> PipeAt(index), dry |-> config.DryRun,
                             invoked |-> FALSE, raised |-> "", handled |-> FALSE,
                             handler |-> "", left |-> ""])
    /\ pc' = "try"
    /\ UNCHANGED <<call, _state, last, config, index, pending, reported>>

\* Pipe.run, the rest of the try block: the description is logged and, unless
\* dry, the action is called
run_try(outcome) ==
    /\ pc = "try"
    /\ IF description_raises(pipes[Current])
       THEN /\ outcome = ""
            /\ pending' = "TypeError"
            /\ pc' = "except"
            /\ UNCHANGED runs
       ELSE IF config.DryRun
       THEN /\ outcome = ""
            /\ pc' = "else"
            /\ UNCHANGED <<pending, runs>>
       ELSE /\ outcome \in action_outcomes(pipes[Current])
            /\ runs' = [Noted("invoked", TRUE) EXCEPT ![Len(runs)].raised = outcome]
            /\ pending' = outcome
            /\ pc' = IF outcome = "" THEN "else"
                     ELSE IF outcome \in Cancellations THEN "finally"
                     ELSE "except"
    /\ UNCHANGED <<pipes, call, _state, last, config, index, reported>>

\* Pipe.run, `except Exception`: excepted is set and the exception raised
\* again; `except self.exceptions as e` calls self.handle(e)
run_except(outcome) ==
    /\ pc = "except"
    /\ pipes' = [pipes EXCEPT ![Current].state = set_state(@, "excepted")]
    /\ IF isinstance(pending, pipes[Current].exceptions)
       THEN /\ runs' = [Noted("handled", TRUE) EXCEPT ![Len(runs)].handler = outcome]
            /\ pending' = outcome
       ELSE /\ outcome = ""
            /\ UNCHANGED <<pending, runs>>
    /\ pc' = "finally"
    /\ UNCHANGED <<call, _state, last, config, index, reported>>

\* Pipe.run, `else`
run_else ==
    /\ pc = "else"
    /\ pipes' = [pipes EXCEPT ![Current].state = set_state(@, "completed")]
    /\ pc' = "finally"
    /\ UNCHANGED <<call, _state, last, config, index, pending, runs, reported>>

\* finished set beside completed, in the `else` clause, instead of `finally`
leave_run_completed(st) == IF st["completed"] THEN set_state(st, "finished") ELSE st

\* Pipe.run, `finally`: the state run() leaves the pipe in
leave_run(st) == set_state(st, "finished")

\* _execute: where control goes when run() is left with the exception e
after_run(e) ==
    IF e = "" THEN "loop" ELSE IF e \in Cancellations THEN "killed" ELSE "raised"

\* Pipe.run, `finally`, and the return into _execute and do(): an exception
\* that is no cancellation passes through both
run_finally ==
    /\ pc = "finally"
    /\ pipes' = [pipes EXCEPT ![Current].state = leave_run(@)]
    /\ runs' = Noted("left", pending)
    /\ pc' = after_run(pending)
    /\ index' = IF pending = "" THEN index + 1 ELSE index
    /\ last' = IF after_run(pending) = "raised"
               THEN [op |-> "do", err |-> Err(pending, PipeAt(index), "")]
               ELSE last
    /\ UNCHANGED <<call, _state, config, pending, reported>>

\* an except clause that logs and does not raise: do() goes on
_execute_swallow ==
    /\ pc = "killed"
    /\ pc' = "loop"
    /\ index' = index + 1
    /\ pending' = ""
    /\ UNCHANGED <<pipes, call, _state, last, config, runs, reported>>

\* _execute, `except (SystemExit, KeyboardInterrupt)`: self.completed[-1] is
\* logged, an IndexError when the list is empty, and the signal raised again
_execute_except ==
    /\ pc = "killed"
    /\ LET completed == pipes_with_state(pipes, "completed")
       IN  IF completed = {}
           THEN /\ pending' = "IndexError"
                /\ UNCHANGED reported
           ELSE /\ reported' \in completed
                /\ UNCHANGED pending
    /\ pc' = "raised"
    /\ last' = [op |-> "do", err |-> Err(pending', PipeAt(index), "")]
    /\ UNCHANGED <<pipes, call, _state, config, index, runs>>

\* do() after the loop: end_actions()
do_end ==
    /\ pc = "loop" /\ index > Len(call)
    /\ pc' = "done"
    /\ last' = [op |-> "do", err |-> NoErr]
    /\ UNCHANGED <<pipes, call, _state, config, index, pending, runs, reported>>

\* the front-end registers its next pipe with the keywords run() reads
RegisterPipeDo ==
    \E name \in NextNames, exceptions \in DeclaredExceptions, optional \in BOOLEAN,
       description \in {"text", "None"}, include \in BOOLEAN :
        /\ ~_state["started"]
        /\ register_pipe(name, <<>>, <<>>, <<>>, include, exceptions, optional, description)

\* a command line with or without the -n switch
ConfigureDo == \E dry_run \in BOOLEAN : configure(dry_run, <<>>)

RunTry == \E outcome \in ActionOutcomes : run_try(outcome)

RunExcept == \E outcome \in HandlerOutcomes : run_except(outcome)

\* CLIEngine.run: init, arguments, configure, parse, do
NextDo ==
    \/ init
    \/ RegisterPipeDo
    \/ DelState
    \/ ConfigureDo
    \/ Parse
    \/ do_start
    \/ run_start
    \/ RunTry
    \/ RunExcept
    \/ run_else
    \/ run_finally
    \/ _execute_except
    \/ do_end

SpecDo == Init /\ [][NextDo]_vars

\* CLIEngine.run calls do() when parse() has returned, do() and run() execute
\* their statements one after the other, and every action and every handler
\* called comes to an end, by returning or by raising
FairDo ==
    /\ WF_vars(do_start) /\ WF_vars(run_start) /\ WF_vars(RunTry)
    /\ WF_vars(RunExcept) /\ WF_vars(run_else) /\ WF_vars(run_finally)
    /\ WF_vars(_execute_except) /\ WF_vars(do_end)

SpecDoFair == Init /\ [][NextDo]_vars /\ FairDo

(* ------------------------ execute(pipename) ---------------------------- *)
\* number of execute() calls the front-end makes
MaxExecutes == 2

\* what the action does in a call made through execute()
ExecuteOutcomes == {"", "ValueError", "KeyboardInterrupt"}

\* Pipe.run as one step: the exception the try block ends with, "" for none
run_raised(pipe, dry, outcome) ==
    IF description_raises(pipe) THEN "TypeError" ELSE IF dry THEN "" ELSE outcome

\* Pipe.run as one step: the record of the call, as run_start, run_try,
\* run_except and run_finally leave it
run_record(pipe, dry, outcome, handler) ==
    LET raised == run_raised(pipe, dry, outcome)
        caught == raised # "" /\ raised \notin Cancellations
        handled == caught /\ isinstance(raised, pipe.exceptions)
    IN  [name |-> pipe.name, dry |-> dry,
         invoked |-> ~description_raises(pipe) /\ ~dry,
         raised |-> IF description_raises(pipe) THEN "" ELSE raised,
         handled |-> handled,
         handler |-> IF handled THEN handler ELSE "",
         left |-> IF handled THEN handler ELSE raised]

\* a run() that begins by clearing the flags of the run before
run_state_fresh(pipe, dry, outcome) ==
    LET raised == run_raised(pipe, dry, outcome)
        st0 == [k \in DOMAIN pipe.state |->
                   IF k \in {"started", "excepted", "completed", "finished"} THEN FALSE
                   ELSE pipe.state[k]]
        st1 == set_state(st0, "started")
        st2 == IF raised = "" THEN set_state(st1, "completed")
               ELSE IF raised \in Cancellations THEN st1
               ELSE set_state(st1, "excepted")
    IN  leave_run(st2)

\* Pipe.run as one step: the state it leaves the pipe in
run_state(pipe, dry, outcome) ==
    LET raised == run_raised(pipe, dry, outcome)
        st1 == set_state(pipe.state, "started")
        st2 == IF raised = "" THEN set_state(st1, "completed")
               ELSE IF raised \in Cancellations THEN st1
               ELSE set_state(st1, "excepted")
    IN  leave_run(st2)

\* Pipeline.execute(pipename): _execute(self.pipes[pipename]), the run() of
\* that pipe and the except clause of _execute.  The front-end calls it when
\* parse() has returned, and again when the call before has returned.
execute(pipename, outcome, handler) ==
    /\ _state["parsed"] /\ last.err.type = "" /\ pc = "idle"
    /\ Len(runs) < MaxExecutes
    /\ pipename \in Names(pipes)
    /\ LET i == IndexOf(pipes, pipename)
           r == run_record(pipes[i], config.DryRun, outcome, handler)
           ps == [pipes EXCEPT ![i].state = run_state(pipes[i], config.DryRun, outcome)]
           completed == pipes_with_state(ps, "completed")
       IN  /\ pipes' = ps
           /\ runs' = Append(runs, r)
           /\ IF r.left \in Cancellations
              THEN IF completed = {}
                   THEN /\ last' = [op |-> "execute", err |-> Err("IndexError", pipename, "")]
                        /\ UNCHANGED reported
                   ELSE /\ last' = [op |-> "execute", err |-> Err(r.left, pipename, "")]
                        /\ reported' \in completed
              ELSE /\ last' = [op |-> "execute",
                               err |-> IF r.left = "" THEN NoErr ELSE Err(r.left, pipename, "")]
                   /\ UNCHANGED reported
    /\ UNCHANGED <<call, _state, config, pc, index, pending>>

\* the front-end executes a pipe by name
Execute ==
    \E pipename \in Names(pipes), outcome \in ExecuteOutcomes, handler \in HandlerOutcomes :
        execute(pipename, outcome, handler)

\* the front-end registers its next pipe with dependencies, and no triggers
\* or replacements
RegisterPipeExecute ==
    \E name \in NextNames, include \in BOOLEAN, rel \in RelationLists :
        /\ ~_state["started"]
        /\ rel[2] = {} /\ rel[3] = {}
        /\ register_pipe(name, ListOf(rel[1]), <<>>, <<>>, include, <<>>, FALSE, "text")
        /\ EdgeCount(pipes', 1) <= MaxEdges

\* CLIEngine.run with a do() that executes pipes by name
NextExecute ==
    \/ init
    \/ RegisterPipeExecute
    \/ DelState
    \/ ConfigureDo
    \/ Parse
    \/ Execute

SpecExecute == Init /\ [][NextExecute]_vars

(* ----------------------------- scenarios ------------------------------- *)
\* the keywords of one registration
Keywords(name, dependencies, triggers, replaces, include) ==
    [name |-> name, dependencies |-> dependencies, triggers |-> triggers,
     replaces |-> replaces, include |-> include]

\* stepA to stepD of SillyPipeline as the front-end would register them, the
\* include keyword of each left open
ScriptsABCD ==
    {<<Keywords("stepA", <<>>, <<>>, <<>>, iA),
       Keywords("stepB", <<"stepA">>, <<>>, <<>>, iB),
       Keywords("stepC", <<"stepA", "stepB">>, <<"stepD">>, <<>>, iC),
       Keywords("stepD", <<>>, <<>>, <<>>, iD)>> :
        iA \in BOOLEAN, iB \in BOOLEAN, iC \in BOOLEAN, iD \in BOOLEAN}

\* stepE and stepF, both with include=True, in either order
ScriptsEF ==
    {<<Keywords("stepE", <<>>, <<>>, <<>>, TRUE),
       Keywords("stepF", <<>>, <<>>, <<"stepE">>, TRUE)>>,
     <<Keywords("stepF", <<>>, <<>>, <<"stepE">>, TRUE),
       Keywords("stepE", <<>>, <<>>, <<>>, TRUE)>>}

\* a pipe that stands on a dependency path and on a trigger path: stepB
\* depends on stepA, which triggers stepB
ScriptsAB ==
    {<<Keywords("stepA", <<>>, <<"stepB">>, <<>>, iA),
       Keywords("stepB", <<"stepA">>, <<>>, <<>>, TRUE)>> : iA \in BOOLEAN}

\* a chain of dependencies, stepA on stepB on stepC, with stepB registered
\* after or before stepA
ScriptsCBA ==
    {<<Keywords("stepC", <<>>, <<>>, <<>>, FALSE),
       Keywords("stepA", <<"stepB">>, <<>>, <<>>, FALSE),
       Keywords("stepB", <<"stepC">>, <<>>, <<>>, FALSE)>>,
     <<Keywords("stepC", <<>>, <<>>, <<>>, FALSE),
       Keywords("stepB", <<"stepC">>, <<>>, <<>>, FALSE),
       Keywords("stepA", <<"stepB">>, <<>>, <<>>, FALSE)>>}

Scripts == ScriptsABCD \cup ScriptsEF \cup ScriptsAB \cup ScriptsCBA

\* the pipe was registered with these keywords
Matches(pipe, kw) ==
    /\ pipe.name = kw.name
    /\ pipe.dependencies = kw.dependencies
    /\ pipe.triggers = kw.triggers
    /\ pipe.replaces = kw.replaces
    /\ pipe.include = kw.include

\* the pipes registered after `all` and `none` are the first k of the script
Follows(script, k) ==
    /\ Len(pipes) = k + 2 /\ k <= Len(script)
    /\ \A j \in 1..k : Matches(pipes[j + 2], script[j])

\* the whole script is registered
Registered(script) ==
    /\ Len(pipes) = Len(script) + 2
    /\ \A j \in 1..Len(script) :
          \E i \in 1..Len(pipes) : Matches(pipes[i], script[j])

\* the front-end registers the next pipe of its script
RegisterScript ==
    /\ _state["initialized"] /\ ~_state["started"]
    /\ \E script \in Scripts :
          LET k == Len(pipes) - 2
          IN  /\ k < Len(script) /\ Follows(script, k)
              /\ register_pipe(script[k + 1].name, script[k + 1].dependencies,
                               script[k + 1].triggers, script[k + 1].replaces,
                               script[k + 1].include, <<>>, FALSE, "text")

\* the lists a configuration file may hold under Default: none, or the
\* macro `all`
DefaultLists == {<<>>, <<"all">>}

\* a configuration file with or without a Default list
ConfigureDefault == \E default \in DefaultLists : configure(FALSE, default)

\* CLIEngine.run for a front-end of the scenarios
NextScenario ==
    \/ init
    \/ RegisterScript
    \/ DelState
    \/ ConfigureDefault
    \/ Parse
    \/ do_start
    \/ run_start
    \/ RunTry
    \/ RunExcept
    \/ run_else
    \/ run_finally
    \/ _execute_except
    \/ do_end

SpecScenario == Init /\ [][NextScenario]_vars

(* ----------------------------- reporting ------------------------------- *)
\* the local `space` of Pipe.tree is read before it was bound
UnboundLocalError(a) == Err("UnboundLocalError", a, "space")
TypeError(a) == Err("TypeError", a, "description")

\* Pipe.tree, lines 110-121: the arrow the if/elif chain binds, "" when no
\* branch is taken and `arrow` and `space` stay unbound
arrow(pipe, dup) ==
    IF pipe.state["replaced"] THEN "replaced"
    ELSE IF pipe.state["triggered"] /\ pipe.state["primed"]
    THEN (IF dup THEN "triggered dup" ELSE "triggered")
    ELSE IF pipe.state["included"] THEN (IF dup THEN "included dup" ELSE "included")
    ELSE IF pipe.state["primed"] THEN (IF dup THEN "primed dup" ELSE "primed")
    ELSE ""

\* lines += the lines of a nested tree(); its exception passes through
Extend(T, U) == [err |-> U.err, lines |-> T.lines \o U.lines]

RECURSIVE tree(_, _, _, _, _)
RECURSIVE tree_loop(_, _, _, _, _, _, _)

\* Pipe.tree of the pipe at position i; T = [err, lines] is threaded through
\* the statements, depth counts the nested calls of tree
tree(ps, i, level, dup, depth) ==
    IF depth > RecursionLimit
    THEN [err |-> RecursionError(ps[i].name), lines |-> <<>>]
    ELSE tree_loop(ps, i, level, dup, depth, Len(ps), [err |-> NoErr, lines |-> <<>>])

\* Pipe.tree: the loop over reversed(pipes), at position k
tree_loop(ps, i, level, dup, depth, k, T) ==
    IF k = 0 \/ T.err.type # "" THEN T
    ELSE
    LET pipe == ps[k]
        self == ps[i]
        T1 == IF pipe.name \in Range(self.dependencies)
              THEN Extend(T, tree(ps, k, level + 1, pipe.parent # self.name, depth + 1))
              ELSE T
        T2 == IF T1.err.type # "" \/ pipe.name # self.name THEN T1
              ELSE IF arrow(self, dup) = ""
              THEN [T1 EXCEPT !.err = UnboundLocalError(self.name)]
              ELSE IF description_raises(self)
              THEN [T1 EXCEPT !.err = TypeError(self.name)]
              ELSE [T1 EXCEPT !.lines = Append(@, [level |-> level,
                                                    left |-> arrow(self, dup),
                                                    name |-> self.name])]
        T3 == IF T2.err.type = "" /\ pipe.name \in Range(self.triggers)
              THEN Extend(T2, tree(ps, k, level + 1, pipe.parent # self.name, depth + 1))
              ELSE T2
    IN  tree_loop(ps, i, level, dup, depth, k - 1, T3)

\* Pipeline.get_dependency_tree: the loop over reversed(self.call), at
\* position k of the call list c
RECURSIVE get_dependency_tree(_, _, _)
get_dependency_tree(ps, c, k) ==
    IF k = 0 THEN [err |-> NoErr, lines |-> <<>>]
    ELSE
    LET pipe == ps[IndexOf(ps, c[k])]
        T == IF pipe.state["included"]
             THEN tree(ps, IndexOf(ps, c[k]), 0, FALSE, 1)
             ELSE [err |-> NoErr, lines |-> <<>>]
    IN  IF T.err.type # "" THEN T
        ELSE Extend(T, get_dependency_tree(ps, c, k - 1))

(* ------------------------------ claims --------------------------------- *)
PipeNamed(n) == pipes[IndexOf(pipes, n)]
InCall(n) == n \in Range(call)
CallPos(n) == CHOOSE i \in 1..Len(call) : call[i] = n
\* position in the registration order, as parse() leaves it
RegPos(n) == IndexOf(pipes, n)
\* the flag reads true; a flag that was never stored does not
Flag(p, key) == HasKey(p.state, key) /\ p.state[key]

\* the latest operation was a resolve() (by itself or at the end of parse())
Resolved == last.op \in {"parse", "resolve"}
\* ... and it returned without raising
Returned == Resolved /\ last.err.type = ""
OrderingErrors == {"PipelineStateException:depend", "PipelineStateException:trigger"}

\* C1: after a resolve() that returned, every dependency B of another pipe A,
\* both in call, stands strictly before A in call.
C1_DependencyBefore ==
    Returned =>
        \A A \in Range(call), B \in Range(call) :
            (A # B /\ B \in Range(PipeNamed(A).dependencies)) => CallPos(B) < CallPos(A)

\* C2: after a resolve() that returned, every trigger B of another pipe A,
\* both in call, stands strictly after A in call.
C2_TriggerAfter ==
    Returned =>
        \A A \in Range(call), B \in Range(call) :
            (A # B /\ B \in Range(PipeNamed(A).triggers)) => CallPos(B) > CallPos(A)

\* C3: after a resolve() that returned, no pipe named in the replaces list of
\* another, primed pipe, and no pipe whose replaced flag is set, is in call.
C3_ReplacementExclusion ==
    Returned =>
        /\ \A i \in 1..Len(pipes) :
              Flag(pipes[i], "primed") =>
                  \A R \in Range(pipes[i].replaces) \ {pipes[i].name} : ~InCall(R)
        /\ \A i \in 1..Len(pipes) :
              Flag(pipes[i], "replaced") => ~InCall(pipes[i].name)

\* the pipes that are not excluded
Eligible == {n \in Names(pipes) : ~Flag(PipeNamed(n), "excluded")}
\* one step along the dependency and trigger declarations, to eligible pipes
Successors(S) ==
    {n \in Eligible : \E m \in S : n \in Range(PipeNamed(m).dependencies)
                                   \/ n \in Range(PipeNamed(m).triggers)}
RECURSIVE Closure(_)
Closure(S) == IF Successors(S) \subseteq S THEN S ELSE Closure(S \cup Successors(S))
\* the pipes reachable from an included, eligible pipe
Reachable == Closure({n \in Eligible : Flag(PipeNamed(n), "included")})
ReplacedByReachable == {n \in Names(pipes) : \E m \in Reachable : n \in Range(PipeNamed(m).replaces)}
ExpectedCall ==
    LET order == [i \in 1..Len(pipes) |-> pipes[i].name]
    IN  SelectSeq(order, LAMBDA n : n \in Reachable /\ n \notin ReplacedByReachable)

\* C4: after a resolve() that returned, call lists, in registration order,
\* exactly the eligible pipes reachable from an included eligible pipe along
\* dependency and trigger declarations, less those a reachable pipe replaces.
C4_CallComposition == Returned => call = ExpectedCall

\* C5: every registered pipe holds all ten state flags, so that _unprimed can
\* be evaluated on every pipe and resolve() never fails reading a flag.
C5_AllFlagsDefined ==
    /\ \A i \in 1..Len(pipes) :
          \A key \in PipeStateKeys \cup {"excluded"} : HasKey(pipes[i].state, key)
    /\ \A i \in 1..Len(pipes) : ~_unprimed(pipes[i]).raises
    /\ Resolved => last.err.type # "KeyError"

\* the registry declares one relation only: X depends on Y
OnlyDependency(X, Y) ==
    /\ X # Y /\ {X, Y} \subseteq Names(pipes)
    /\ EdgeCount(pipes, 1) = 1
    /\ PipeNamed(X).dependencies = <<Y>>
\* the command line was +X and nothing else
SelectedOnly(X) ==
    /\ \A i \in 1..Len(pipes) : Flag(pipes[i], "included") <=> pipes[i].name = X
    /\ \A i \in 1..Len(pipes) : ~Flag(pipes[i], "excluded")

\* C6: with X depending on Y and only X selected, resolution succeeds with Y
\* before X in call when Y was registered before X, and raises the ordering
\* error naming X and Y when Y was registered after X.
C6_DependencyOrderDetection ==
    last.op = "parse" =>
        \A X \in UserNames, Y \in UserNames :
            (OnlyDependency(X, Y) /\ SelectedOnly(X)) =>
                IF RegPos(Y) < RegPos(X)
                THEN last.err.type = "" /\ call = <<Y, X>>
                ELSE last.err = DependencyError(X, Y)

\* C7: when the first resolve() of a run has primed A, a trigger T of A that
\* is left not primed, not excluded and not included was registered before A
\* and resolve() raised the ordering error naming A and T; a trigger
\* registered after A is never left so (it was triggered and primed).
C7_TriggerOrderDetection ==
    last.op = "parse" =>
        \A A \in Names(pipes), T \in Names(pipes) :
            (/\ A # T
             /\ Flag(PipeNamed(A), "primed")
             /\ T \in Range(PipeNamed(A).triggers)
             /\ ~Flag(PipeNamed(T), "primed")
             /\ ~Flag(PipeNamed(T), "excluded")
             /\ ~Flag(PipeNamed(T), "included"))
            => (RegPos(T) < RegPos(A) /\ last.err = TriggerError(A, T))

\* C8: a resolve() that raised an ordering error leaves call empty.
C8_NoPartialCall ==
    (Resolved /\ last.err.type \in OrderingErrors) => call = <<>>

\* a resolve() raised an ordering error after it had primed a pipe
C8_Witness ==
    /\ Resolved /\ last.err.type \in OrderingErrors
    /\ \E i \in 1..Len(pipes) : Flag(pipes[i], "primed")

\* C9: a resolve() that follows a resolve() leaves call as it was.
C9_IdempotentResolution ==
    [][(Resolved /\ last'.op = "resolve") => call' = call]_vars

\* C10: resolving with nothing selected raises the usage error.
C10_EmptySelectionFailure ==
    (Resolved /\ \A i \in 1..Len(pipes) : ~Flag(pipes[i], "included"))
        => last.err.type = "UsageError"

\* C11: a pipe whose excluded flag is set is never primed, never triggered and
\* never in call, whatever switches include it and whatever pipes name it as
\* a dependency or a trigger.
C11_ExclusionPrecedence ==
    \A i \in 1..Len(pipes) :
        Flag(pipes[i], "excluded") =>
            /\ ~Flag(pipes[i], "primed")
            /\ ~Flag(pipes[i], "triggered")
            /\ ~InCall(pipes[i].name)

\* resolve() returned a call; an excluded pipe was also included, and an
\* excluded pipe is a dependency or a trigger of a pipe in call
C11_Witness ==
    /\ Returned /\ call # <<>>
    /\ \E i \in 1..Len(pipes) :
          Flag(pipes[i], "excluded") /\ Flag(pipes[i], "included")
    /\ \E i \in 1..Len(pipes), j \in 1..Len(pipes) :
          /\ i # j /\ Flag(pipes[i], "excluded") /\ InCall(pipes[j].name)
          /\ pipes[i].name \in Range(pipes[j].dependencies) \cup Range(pipes[j].triggers)

\* control is inside Pipe.run
InRun == pc \in {"try", "except", "else", "finally"}
\* control has left the k-th call of run()
Left(k) == k < Len(runs) \/ ~InRun
\* the pipe of the k-th call of run()
Ran(k) == PipeNamed(runs[k].name)

\* C12: once control has left a call of run(), by whatever exit, the pipe is
\* started and finished; and no pipe is ever finished without being started.
C12_RunReachesFinished ==
    /\ \A k \in 1..Len(runs) :
          Left(k) => Flag(Ran(k), "started") /\ Flag(Ran(k), "finished")
    /\ \A i \in 1..Len(pipes) :
          Flag(pipes[i], "finished") => Flag(pipes[i], "started")

\* do() has ended after one run() returned from its handler and a later one
\* was left by a cancellation
C12_Witness ==
    /\ pc = "raised"
    /\ \E k \in 1..Len(runs) : runs[k].handled /\ runs[k].left = ""
    /\ \E k \in 1..Len(runs) : runs[k].left \in Cancellations

\* the action of the k-th run() raised an exception of a class its pipe declares
Acceptable(k) == runs[k].raised \in Range(Ran(k).exceptions)
\* do() went on after the k-th run(): the loop is past position k and the
\* run() that follows, if any, is that of the next pipe of call
Continued(k) ==
    /\ index > k
    /\ k < Len(runs) => runs[k + 1].name = call[k + 1]
ExceptedNotCompleted(p) ==
    Flag(p, "excepted") /\ Flag(p, "finished") /\ ~Flag(p, "completed")

\* C13, as stated: whenever the action raised a declared exception, run()
\* called the handler and returned normally, the pipe excepted, finished and
\* not completed, and do() went on with the next pipe of call.
C13_AcceptableFailure ==
    \A k \in 1..Len(runs) :
        (Acceptable(k) /\ Left(k)) =>
            /\ runs[k].handled /\ runs[k].left = ""
            /\ ExceptedNotCompleted(Ran(k))
            /\ Continued(k)

\* C13, amended: whenever the action raised a declared exception, run()
\* called the handler and left the pipe excepted, finished and not completed;
\* when the handler returned, run() returned normally and do() went on with
\* the next pipe of call; when the handler raised, its exception left run()
\* and do() stopped at this pipe.
C13_AcceptableFailureHandled ==
    \A k \in 1..Len(runs) :
        (Acceptable(k) /\ Left(k)) =>
            /\ runs[k].handled
            /\ ExceptedNotCompleted(Ran(k))
            /\ runs[k].left = runs[k].handler
            /\ IF runs[k].handler = "" THEN Continued(k)
               ELSE index = k /\ pc \in {"killed", "raised"}

\* the handler of a declared exception returned and the next pipe was started
C13_Witness ==
    \E k \in 1..Len(runs) :
        /\ Acceptable(k) /\ runs[k].handled /\ runs[k].handler = ""
        /\ k < Len(runs) /\ Flag(Ran(k + 1), "started")

\* the action of the k-th run() raised an exception (a class derived from
\* Exception) of a class its pipe does not declare
Fatal(k) ==
    runs[k].raised \in ExceptionClasses /\ runs[k].raised \notin Range(Ran(k).exceptions)
\* no pipe after position k of call is started
NoneStartedAfter(k) ==
    \A j \in (k + 1)..Len(call) : ~Flag(PipeNamed(call[j]), "started")

\* C14: whenever the action raised an exception its pipe does not declare,
\* the handler was not called, the exception left run() and do() with the
\* pipe excepted, finished and not completed, and no later pipe of call is
\* started.
C14_FatalFailure ==
    \A k \in 1..Len(runs) :
        (Fatal(k) /\ Left(k)) =>
            /\ ~runs[k].handled /\ runs[k].left = runs[k].raised
            /\ ExceptedNotCompleted(Ran(k))
            /\ pc = "raised" /\ last = [op |-> "do", err |-> Err(runs[k].raised, runs[k].name, "")]
            /\ k = Len(runs) /\ index = k /\ NoneStartedAfter(k)

\* an undeclared exception ended do() before the last pipe of call
C14_Witness ==
    /\ pc = "raised" /\ runs # <<>>
    /\ Fatal(Len(runs)) /\ Len(runs) < Len(call)

\* C15: whenever the action of a pipe registered with optional=True raised an
\* exception its pipe does not declare, the exception did not leave run(),
\* do() went on with the next pipe of call, and the pipe is excepted,
\* finished and not completed.
C15_OptionalFailureContinues ==
    \A k \in 1..Len(runs) :
        (Ran(k).optional /\ Fatal(k) /\ Left(k)) =>
            /\ runs[k].left = ""
            /\ ExceptedNotCompleted(Ran(k))
            /\ Continued(k)
            /\ ~(last.op = "do" /\ last.err.type = runs[k].raised)

\* C16: with the dry-run flag set, no call of run() invokes the action, every
\* run() that was left has its pipe started, completed, finished and not
\* excepted, do() is not ended by an exception, and when do() has returned
\* the completed pipes are exactly the pipes of call.
C16_DryRunNoOp ==
    (config.DryRun /\ pc # "idle" /\ call # <<>>) =>
        /\ \A k \in 1..Len(runs) : ~runs[k].invoked
        /\ \A k \in 1..Len(runs) :
              Left(k) => /\ Flag(Ran(k), "started") /\ Flag(Ran(k), "completed")
                         /\ Flag(Ran(k), "finished") /\ ~Flag(Ran(k), "excepted")
        /\ pc # "raised"
        /\ pc = "done" => pipes_with_state(pipes, "completed") = Range(call)

\* the k-th run() was left by SystemExit or KeyboardInterrupt
Cancelled(k) == runs[k].left \in Cancellations
\* the state of a step leaves every completed flag set
CompletedKept ==
    \A n \in Names(pipes) :
        Flag(PipeNamed(n), "completed") => Flag(PipeNamed(n), "completed")'

\* C17: once a run() has been left by SystemExit or KeyboardInterrupt, it is
\* the last run(): do() is in the handler of _execute or has ended with an
\* exception, and no later pipe of call is started; and no step ever resets
\* a completed flag.
C17_CancellationAborts ==
    /\ [](\A k \in 1..Len(runs) :
            (Cancelled(k) /\ Left(k)) =>
                /\ k = Len(runs) /\ index = k
                /\ pc \in {"killed", "raised"}
                /\ NoneStartedAfter(k))
    /\ [][CompletedKept]_vars

\* do() was ended by a cancellation in the second of three pipes, the first
\* of which had completed
C17_Witness ==
    /\ pc = "raised" /\ Len(runs) = 2 /\ Len(call) = 3
    /\ Cancelled(2) /\ Flag(Ran(1), "completed")
    /\ ~Flag(PipeNamed(call[3]), "started")

\* the positions of call whose pipe is completed
CompletedPositions == {k \in 1..Len(call) : Flag(PipeNamed(call[k]), "completed")}
\* the last pipe, in the order of call, that is completed
LastCompleted ==
    call[CHOOSE k \in CompletedPositions : \A j \in CompletedPositions : j <= k]

\* C18: when do() has been ended by a cancellation of a run(), the exception
\* that left do() is the signal that left run(), also when no pipe had
\* completed, and the name reported as last completed, when a pipe had
\* completed, is the last completed pipe in the order of call.
C18_CancellationReport ==
    (pc = "raised" /\ runs # <<>> /\ Cancelled(Len(runs))) =>
        /\ last = [op |-> "do", err |-> Err(runs[Len(runs)].left, runs[Len(runs)].name, "")]
        /\ CompletedPositions # {} => reported = LastCompleted

\* the positions of call whose pipe is started
StartedPositions == {k \in 1..Len(call) : Flag(PipeNamed(call[k]), "started")}

\* C19: at every moment the started pipes are the pipes of a prefix of call,
\* run() was called on them in the order of call, every pipe before a
\* started pipe is finished, and at most one pipe is started and not
\* finished.
C19_SequentialExecution ==
    /\ \E n \in 0..Len(call) : StartedPositions = 1..n
    /\ \A i \in 1..Len(pipes) : Flag(pipes[i], "started") => InCall(pipes[i].name)
    /\ Len(runs) = Cardinality(StartedPositions)
    /\ \A k \in 1..Len(runs) : runs[k].name = call[k]
    /\ \A k \in StartedPositions :
          \A j \in 1..(k - 1) : Flag(PipeNamed(call[j]), "finished")
    /\ Cardinality({i \in 1..Len(pipes) :
                       Flag(pipes[i], "started") /\ ~Flag(pipes[i], "finished")}) <= 1

\* the second of three pipes is inside run(): the first is finished, the
\* third not started
C19_Witness ==
    /\ Len(call) = 3 /\ InRun /\ index = 2
    /\ Flag(PipeNamed(call[1]), "finished")
    /\ Flag(PipeNamed(call[2]), "started") /\ ~Flag(PipeNamed(call[2]), "finished")
    /\ ~Flag(PipeNamed(call[3]), "started")

\* a step of register_pipe that appended a pipe with a fresh name
AppendedFresh ==
    /\ last'.err = NoErr
    /\ Len(pipes') = Len(pipes) + 1
    /\ Names(pipes') = Names(pipes) \cup {pipes'[Len(pipes')].name}
    /\ pipes'[Len(pipes')].name \notin Names(pipes)
\* a step of register_pipe whose exception names a pipe that was registered
\* before the step: the call was made with a name in use
NamedDuplicate == last'.err.type # "" /\ last'.err.a \in Names(pipes)

\* C20: a register_pipe call made when the started flag is set (a resolve()
\* has begun, whether it returned or raised) fails with the
\* PipelineStateException and leaves pipes, all.dependencies included, as
\* they were; a register_pipe call made before, with a fresh name, succeeds
\* and appends the pipe.
C20_RegistrationClosed ==
    [][last'.op = "register_pipe" =>
          IF _state["started"]
          THEN /\ last'.err = Err("PipelineStateException:started", "", "")
               /\ pipes' = pipes
          ELSE AppendedFresh \/ NamedDuplicate]_vars

\* register_pipe failed after a resolve() that raised: a pipe is primed and
\* not replaced, yet call is empty
C20_Witness ==
    /\ last = [op |-> "register_pipe", err |-> Err("PipelineStateException:started", "", "")]
    /\ call = <<>>
    /\ \E i \in 1..Len(pipes) : Flag(pipes[i], "primed") /\ ~Flag(pipes[i], "replaced")

\* C21: a register_pipe call made before the pipeline has started either
\* appends a pipe of a fresh name or, the name being in use, raises the
\* duplicate-name PipelineException and leaves pipes as they were: the same
\* pipes in the same order, all.dependencies not extended.
C21_DuplicateRejected ==
    [][(last'.op = "register_pipe" /\ ~_state["started"]) =>
          \/ AppendedFresh
          \/ /\ last'.err.type = "PipelineException:duplicate"
             /\ last'.err.a \in Names(pipes)
             /\ pipes' = pipes]_vars

\* the names of the pipes registered with include=True, in the order of pipes
IncludeTrueNames ==
    LET order == [i \in 1..Len(pipes) |-> pipes[i].name]
    IN  SelectSeq(order, LAMBDA n : PipeNamed(n).include)

\* C22: from init() on, the pipe `all` is registered, once, and its
\* dependencies are the names of the pipes registered with include=True, in
\* the order of their registration, each once; the name of a pipe registered
\* with include=False is not among them.
C22_AllCollectsIncluded ==
    _state["initialized"] =>
        /\ Cardinality({i \in 1..Len(pipes) : pipes[i].name = "all"}) = 1
        /\ PipeNamed("all").dependencies = IncludeTrueNames
        /\ \A i \in 1..Len(pipes) :
              ~pipes[i].include => pipes[i].name \notin Range(PipeNamed("all").dependencies)

\* the command line was parsed (`all` stands last) with one pipe registered
\* with include=True after one registered with include=False
C22_Witness ==
    /\ last.op = "parse" /\ Len(pipes) = 4
    /\ pipes[Len(pipes)].name = "all"
    /\ ~PipeNamed("a").include /\ PipeNamed("b").include
    /\ PipeNamed("all").dependencies = <<"b">>

\* the command line included `all` and did not exclude it
AllSelected == Flag(PipeNamed("all"), "included") /\ ~Flag(PipeNamed("all"), "excluded")

\* C23: after a resolve() that returned with `all` included and not excluded,
\* call contains `all` and every pipe registered with include=True that is
\* neither excluded nor replaced; and no resolve() raises the dependency
\* ordering error with `all` as the dependent.
C23_AllRunsDefaultSet ==
    /\ (Returned /\ AllSelected) =>
          /\ InCall("all")
          /\ \A i \in 1..Len(pipes) :
                (/\ pipes[i].include
                 /\ ~Flag(pipes[i], "excluded")
                 /\ ~Flag(pipes[i], "replaced")) => InCall(pipes[i].name)
    /\ Resolved => ~(last.err.type = "PipelineStateException:depend" /\ last.err.a = "all")

\* C23, amended: after a resolve() that returned with `all` included and not
\* excluded, call contains every pipe registered with include=True that is
\* neither excluded nor replaced, and `all` itself unless a pipe replaced it;
\* and no resolve() raises the dependency ordering error with `all` as the
\* dependent.
C23_AllRunsDefaultSetUnlessReplaced ==
    /\ (Returned /\ AllSelected) =>
          /\ ~Flag(PipeNamed("all"), "replaced") => InCall("all")
          /\ \A i \in 1..Len(pipes) :
                (/\ pipes[i].include
                 /\ ~Flag(pipes[i], "excluded")
                 /\ ~Flag(pipes[i], "replaced")) => InCall(pipes[i].name)
    /\ Resolved => ~(last.err.type = "PipelineStateException:depend" /\ last.err.a = "all")

\* two pipes were registered with include=True; the command line included
\* `all` and excluded the first of them, and resolve() returned
C23_Witness ==
    /\ Returned /\ AllSelected /\ Len(pipes) = 4
    /\ PipeNamed("a").include /\ PipeNamed("b").include
    /\ Flag(PipeNamed("a"), "excluded")
    /\ call = <<"b", "all">>

\* the pipe the latest call of run() ran
Executed == runs[Len(runs)].name

\* C24: when execute(name) has returned, every registered dependency of the
\* named pipe has completed: one that had not completed before the call was
\* run by it, before the named pipe.
C24_ExecuteRunsDependencies ==
    (last.op = "execute" /\ last.err = NoErr) =>
        \A d \in Range(PipeNamed(Executed).dependencies) \cap Names(pipes) :
            Flag(PipeNamed(d), "completed")

\* every flag that reads true reads true after the step, on the same pipe
FlagsKept ==
    \A i \in 1..Len(pipes) : \A key \in DOMAIN pipes[i].state :
        pipes[i].state[key] =>
            \E j \in 1..Len(pipes') :
                pipes'[j].name = pipes[i].name /\ Flag(pipes'[j], key)

\* C25: no step of the pipeline (register_pipe, parse and its resolve(),
\* execute and its run()) turns a flag of a pipe from set to unset.
C25_FlagsAppendOnly == [][FlagsKept]_vars

\* a pipe was run twice: it completed, then its action raised, and it holds
\* completed and excepted together
C25_Witness ==
    /\ Len(runs) = 2 /\ runs[1].name = runs[2].name
    /\ runs[1].left = "" /\ runs[2].left = "ValueError"
    /\ Flag(PipeNamed(runs[2].name), "completed")
    /\ Flag(PipeNamed(runs[2].name), "excepted")
    /\ Flag(PipeNamed(runs[2].name), "primed")

\* C26: no pipe stands more than once in call.
C26_NoDuplicate ==
    \A i \in 1..Len(call), j \in 1..Len(call) : call[i] = call[j] => i = j

\* resolve() was called again and returned; a pipe of call is a trigger of
\* one pipe of call and a dependency of another
C26_Witness ==
    /\ last.op = "resolve" /\ last.err.type = ""
    /\ \E X \in Range(call), A \in Range(call), B \in Range(call) :
          /\ X # A /\ X # B /\ A # B
          /\ X \in Range(PipeNamed(A).dependencies)
          /\ X \in Range(PipeNamed(B).triggers)
          /\ Flag(PipeNamed(X), "triggered") /\ Flag(PipeNamed(X), "primed")

\* C27: with stepA, stepB (depends on stepA), stepC (depends on stepA and
\* stepB, triggers stepD) and stepD registered in that order, a command line
\* that selects stepC only resolves to call = stepA, stepB, stepC, stepD.
C27_ScenarioStepC ==
    (/\ last.op = "parse"
     /\ \E script \in ScriptsABCD : Registered(script)
     /\ SelectedOnly("stepC"))
    => (last.err = NoErr /\ call = <<"stepA", "stepB", "stepC", "stepD">>)

\* C28: with stepE and stepF registered with include=True, in either order,
\* stepF declaring replaces=[stepE], a command line that selects `all` only
\* resolves to a call that contains stepF and does not contain stepE.
C28_ScenarioReplace ==
    (/\ last.op = "parse"
     /\ \E script \in ScriptsEF : Registered(script)
     /\ SelectedOnly("all"))
    => (InCall("stepF") /\ ~InCall("stepE"))

\* C29: after a parse() that returned for a command line that included no
\* pipe (no included flag but on pipes of the Default list), with a Default
\* list in the configuration, every pipe of the list that is registered and
\* not excluded is primed, and call is not empty when one of them is not
\* replaced.
C29_ConfiguredDefaults ==
    (/\ last.op = "parse" /\ last.err.type = ""
     /\ config.Default # <<>>
     /\ \A i \in 1..Len(pipes) :
           Flag(pipes[i], "included") => pipes[i].name \in Range(config.Default))
    => /\ \A d \in Range(config.Default) \cap Names(pipes) :
             ~Flag(PipeNamed(d), "excluded") => Flag(PipeNamed(d), "primed")
       /\ (\E d \in Range(config.Default) \cap Names(pipes) :
              ~Flag(PipeNamed(d), "excluded") /\ ~Flag(PipeNamed(d), "replaced"))
          => call # <<>>

\* C30: during one resolve() the resolution steps of a pipe (_resolve) are
\* entered at most once for every pipe.
C30_ResolvedOnce ==
    \A i \in 1..Len(pipes) : pipes[i].entered <= 1

\* C31: once control has left the run() of a pipe, the pipe is finished and
\* holds exactly one of excepted and completed, whatever the action did,
\* SystemExit and KeyboardInterrupt included.
C31_LifecycleShape ==
    \A k \in 1..Len(runs) :
        Left(k) =>
            /\ Flag(Ran(k), "finished")
            /\ Flag(Ran(k), "excepted") # Flag(Ran(k), "completed")

\* A was resolved and names the excluded pipe D among its dependencies
ExcludedDependency(A, D) ==
    /\ A # D /\ _state["started"]
    /\ Flag(PipeNamed(A), "primed")
    /\ D \in Range(PipeNamed(A).dependencies)
    /\ Flag(PipeNamed(D), "excluded")

OrderOfOthers(ps) ==
    [k \in 1..Len(SelectSeq(ps, LAMBDA p : p.name # "all")) |->
        SelectSeq(ps, LAMBDA p : p.name # "all")[k].name]

\* C33: a step of parse() leaves `all` at the last position of pipes and
\* changes nothing else of the order: the same number of pipes, the same
\* names, and the other pipes (`none` included) in the order they had.
C33_AllRelocated ==
    [][(last'.op = "parse" /\ ~_state["parsed"]) =>
          /\ Len(pipes') = Len(pipes)
          /\ Names(pipes') = Names(pipes)
          /\ pipes'[Len(pipes')].name = "all"
          /\ OrderOfOthers(pipes') = OrderOfOthers(pipes)]_vars

\* parse() has run on a registry of four pipes: `all`, which init() registered
\* first, is last, behind `none` and the pipes of the front-end
C33_Witness ==
    /\ last.op = "parse"
    /\ Len(pipes) = 4
    /\ [k \in 1..4 |-> pipes[k].name] = <<"none", "a", "b", "all">>

\* what get_dependency_tree() returns or raises in the current state
DependencyTree == get_dependency_tree(pipes, call, Len(call))

\* C34: after a resolve() that returned, get_dependency_tree() returns a list
\* of lines: it raises nothing and its recursion ends.  (It sets no flag and
\* does not touch call: it only reads.)
C34_TreeTotal ==
    Returned => DependencyTree.err = NoErr

\* C35: every resolve() terminates: the nesting of _resolve stays bounded,
\* so resolve() never ends with the RuntimeError of a recursion without end,
\* whatever relations the pipes declare.
C35_ResolutionTerminates ==
    Resolved => last.err # RecursionError(last.err.a)

\* C36: when resolve() raised an ordering error, the next resolve(), called
\* with the same pipes and the same selection, raises the same error and
\* leaves call empty.
C36_OrderingErrorSticky ==
    [][(Resolved /\ last.err.type \in OrderingErrors /\ last'.op = "resolve") =>
          (last'.err = last.err /\ call' = <<>>)]_vars

\* C37: in every state and for every pipe, completed, excepted and finished
\* are set only on a started pipe; the completed names are among the
\* attempted names.
C37_LifecycleOrdering ==
    /\ \A i \in 1..Len(pipes) :
          (pipes[i].state["completed"] \/ pipes[i].state["excepted"]
              \/ pipes[i].state["finished"]) => pipes[i].state["started"]
    /\ pipes_with_state(pipes, "completed") \subseteq pipes_with_state(pipes, "started")

\* do() has run two pipes: the action of one returned, the action of the other
\* raised an exception the pipe declares, and both are finished
C37_Witness ==
    /\ pc = "done"
    /\ \E i, j \in 1..Len(pipes) :
          /\ pipes[i].state["completed"] /\ pipes[i].state["finished"]
          /\ pipes[j].state["excepted"] /\ pipes[j].state["finished"]

\* the relation list l without the names of UnknownNames(ps)
KnownOnly(ps, l) == SelectSeq(l, LAMBDA n : n \notin UnknownNames(ps))

\* the registry with every unknown name taken out of the relation lists
WithoutUnknown(ps) ==
    [k \in 1..Len(ps) |->
        [ps[k] EXCEPT !.dependencies = KnownOnly(ps, @),
                      !.triggers = KnownOnly(ps, @),
                      !.replaces = KnownOnly(ps, @)]]

\* the registry as parse() hands it to its resolve(): the selection flags
\* set, nothing resolved
BeforeResolve(ps) ==
    [k \in 1..Len(ps) |->
        [ps[k] EXCEPT !.parent = "", !.entered = 0,
                      !.state = [key \in DOMAIN @ |->
                                    IF key \in {"primed", "triggered", "replaced"}
                                    THEN FALSE ELSE @[key]]]]

\* C38: a name in a dependencies, triggers or replaces list that no
\* registered pipe has causes no error in the resolve() of parse(), and
\* resolve() ends as it does on the same registry and selection with the
\* unknown names taken out of the lists: the same call, the same exception.
C38_UnknownNamesIgnored ==
    last.op = "parse" =>
        LET r == resolve(BeforeResolve(WithoutUnknown(pipes)))
        IN  /\ call = r.call
            /\ last.err = r.err
            /\ last.err.type # "" =>
                  UnknownNames(pipes) \cap {last.err.a, last.err.b} = {}

\* parse() returned a call that holds a pipe declaring an unknown dependency
\* and an unknown trigger
C38_Witness ==
    /\ last.op = "parse" /\ last.err.type = ""
    /\ \E n \in Range(call) :
          /\ Range(PipeNamed(n).dependencies) \cap UnknownNames(pipes) # {}
          /\ Range(PipeNamed(n).triggers) \cap UnknownNames(pipes) # {}

\* the action of run k raised a fatal exception or a cancellation
ActionFailed(k) == runs[k].raised # "" /\ ~Acceptable(k)

\* the number of times do() has called the action of the pipe named n
InvokedTimes(n) == Cardinality({k \in 1..Len(runs) : runs[k].name = n /\ runs[k].invoked})

\* do() has returned: the pipes of call are started and finished and their
\* actions were called once each, and no other pipe is started
DoReturned ==
    /\ pc = "done"
    /\ \A i \in 1..Len(pipes) :
          IF InCall(pipes[i].name)
          THEN /\ pipes[i].state["started"] /\ pipes[i].state["finished"]
               /\ InvokedTimes(pipes[i].name) = 1
          ELSE ~pipes[i].state["started"]

\* C39: when resolve() has returned a call that is not empty, then, with
\* every action coming to an end, either the action of some pipe raises a
\* fatal exception or a cancellation, or do() eventually returns with every
\* pipe of call started and finished, its action called exactly once, and
\* no pipe outside call started.
C39_ExecutionCompletes ==
    (Returned /\ call # <<>>) ~> (DoReturned \/ \E k \in 1..Len(runs) : ActionFailed(k))

\* The recursion limit is reached only by a pipe that names itself as a
\* dependency: every other resolution ends below RecursionLimit.
RecursionOnlyBySelfDependency ==
    (Resolved /\ last.err.type = "RuntimeError")
        => \E i \in 1..Len(pipes) : pipes[i].name \in Range(pipes[i].dependencies)

====
